---- MODULE Spec2Model ----
(***************************************************************************)
(* Model of src/data/video.py: temporal sampling of a video stream         *)
(* (sample_frames), aspect-preserving frame resizing (resize_frame) and    *)
(* the per-video feature matrix assembly (extract_features).               *)
(*                                                                         *)
(* A frame is the record [index, shape]: its position in the decoded       *)
(* stream and its numpy shape (<<h, w, 3>> or <<h, w>>).  Frame rates and   *)
(* frequencies are exact rationals [num, den] (binary fractions, which     *)
(* Python floats represent exactly).                                       *)
(***************************************************************************)
EXTENDS Integers, Sequences, FiniteSets, TLC

\* ---------------------------------------------------------------- bounds
MaxStreamLen == 19
MaxFpsQuarters == 9
MaxSide == 5
MaxTarget == 4
MaxVideoLen == 4
MaxVideoFpsQuarters == 4
MaxFramesBound == 3

\* ------------------------------------------------------- program constants
MaxClipLen == 16
DefaultSide == 224

\* ------------------------------------------------------------------ state
VARIABLES
    \* sample_frames
    pc, err, video, frequency, dims, period, clip_len, clip_seq, i, frames, clips,
    \* resize_frame
    r_pc, r_frame, r_dims, r_resized, r_crop, r_cropped, r_out,
    \* extract_features
    x_pc, x_err, args, dataset_dir_created, aencoder_on_device, videos, features,
    video_index, opened, sample_log, forward_calls, dumped

sampler_vars == <<pc, err, video, frequency, dims, period, clip_len, clip_seq, i, frames, clips>>
resize_vars == <<r_pc, r_frame, r_dims, r_resized, r_crop, r_cropped, r_out>>
extract_vars == <<x_pc, x_err, args, dataset_dir_created, aencoder_on_device, videos,
                  features, video_index, opened, sample_log, forward_calls, dumped>>
vars == <<sampler_vars, resize_vars, extract_vars>>

\* ------------------------------------------------------------- input sets
Min(a, b) == IF a < b THEN a ELSE b

\* Shapes a decoded frame can have: colour landscape and grayscale square.
VideoShapes == {<<2, 4, 3>>, <<3, 3>>}

\* A stream of n frames of shape base, frame badAt (0: none) of shape other.
Stream(n, base, badAt, other) ==
    [k \in 1..n |-> [index |-> k - 1,
                     shape |-> IF badAt > 0 /\ k - 1 = badAt THEN other ELSE base]]

\* Frame rates 0.25, 0.5, ... as exact rationals.
FrameRates(maxq) == {[num |-> n, den |-> 4] : n \in 1..maxq}

\* Values a caller can pass as frequency: floats 0.0, 0.25, ..., 1.25 and the int 1.
Frequencies ==
    {[isFloat |-> TRUE, num |-> n, den |-> 4] : n \in 0..5}
        \cup {[isFloat |-> FALSE, num |-> 1, den |-> 1]}

Videos(maxlen, maxq) ==
    {[isfile |-> TRUE, fps |-> f, stream |-> Stream(n, b, bad, o)] :
        f \in FrameRates(maxq), n \in 1..maxlen, b \in VideoShapes,
        bad \in 0..(maxlen - 1), o \in VideoShapes}

\* ----------------------------------------------------------- sample_frames
\* Python round() of the non-negative rational n/d: half to even.
RoundHalfEven(n, d) ==
    LET q == n \div d
        r == n % d
    IN  IF 2 * r < d THEN q
        ELSE IF 2 * r > d THEN q + 1
        ELSE IF q % 2 = 0 THEN q ELSE q + 1

\* period = round(fps / frequency)
Period(fps, freq) == RoundHalfEven(fps.num * freq.den, fps.den * freq.num)

\* clip_len = min(2 * period, 16)
ClipLen(p) == Min(2 * p, MaxClipLen)

\* isinstance(frequency, float) and 0. < frequency <= 1.0
FrequencyValid(freq) == freq.isFloat /\ 0 < freq.num /\ freq.num <= freq.den

DequeAppendRejecting(q, x, maxlen) ==
    IF Len(q) >= maxlen THEN q ELSE Append(q, x)

\* deque(maxlen=...).append: the oldest element is evicted once full.
DequeAppend(q, x, maxlen) ==
    IF maxlen = 0 THEN q
    ELSE IF Len(q) = maxlen THEN Append(Tail(q), x)
    ELSE Append(q, x)

\* clip_seq.clear()
DequeClear(q) == <<>>

IsSamplingBoundaryShifted(idx, p) == idx % p = p - 1

\* i % period == 0
IsSamplingBoundary(idx, p) == idx % p = 0

ShapeUnchecked(frame, d) == TRUE

\* frame.shape == dims
ShapeMatches(frame, d) == frame.shape = d

ClipDueFromPeriod(idx, p, q, clen) ==
    idx >= p /\ Len(q) = clen /\ IsSamplingBoundary(idx, p)

\* i > period and len(clip_seq) == clip_len and i % period == 0
ClipDue(idx, p, q, clen) ==
    idx > p /\ Len(q) = clen /\ IsSamplingBoundary(idx, p)

\* One iteration of the for loop over the local state st = [frames, clips,
\* clip_seq, err]; a raised exception is recorded in err.
LoopBody(st, idx, frame, d, p, clen) ==
    LET win == DequeAppend(st.clip_seq, frame, clen)
    IN  IF p = 0
        THEN [st EXCEPT !.clip_seq = win, !.err = "ZeroDivisionError"]
        ELSE IF IsSamplingBoundary(idx, p) /\ ~ShapeMatches(frame, d)
        THEN [st EXCEPT !.clip_seq = win, !.err = "ShapeMismatch"]
        ELSE LET fs == IF IsSamplingBoundary(idx, p)
                       THEN Append(st.frames, frame) ELSE st.frames
             IN  IF ClipDue(idx, p, win, clen)
                 THEN [frames |-> fs, clips |-> Append(st.clips, win),
                       clip_seq |-> DequeClear(win), err |-> st.err]
                 ELSE [frames |-> fs, clips |-> st.clips,
                       clip_seq |-> win, err |-> st.err]

\* The asserts and the set-up before the loop (lines 25-36).
Open ==
    /\ pc = "start"
    /\ IF ~video.isfile
       THEN /\ pc' = "failed" /\ err' = "NoSuchVideo"
            /\ UNCHANGED <<dims, period, clip_len>>
       ELSE IF ~FrequencyValid(frequency)
       THEN /\ pc' = "failed" /\ err' = "BadFrequency"
            /\ UNCHANGED <<dims, period, clip_len>>
       ELSE /\ pc' = "loop"
            /\ dims' = video.stream[1].shape
            /\ period' = Period(video.fps, frequency)
            /\ clip_len' = ClipLen(Period(video.fps, frequency))
            /\ UNCHANGED err
    /\ UNCHANGED <<video, frequency, clip_seq, i, frames, clips, resize_vars, extract_vars>>

\* One pass of `for i, frame in enumerate(vid)`.
Step ==
    /\ pc = "loop"
    /\ i < Len(video.stream)
    /\ LET st == LoopBody([frames |-> frames, clips |-> clips, clip_seq |-> clip_seq,
                           err |-> "none"],
                          i, video.stream[i + 1], dims, period, clip_len)
       IN  /\ frames' = st.frames
           /\ clips' = st.clips
           /\ clip_seq' = st.clip_seq
           /\ err' = st.err
           /\ pc' = IF st.err = "none" THEN "loop" ELSE "failed"
           /\ i' = IF st.err = "none" THEN i + 1 ELSE i
    /\ UNCHANGED <<video, frequency, dims, period, clip_len, resize_vars, extract_vars>>

\* return frames, clips
Return ==
    /\ pc = "loop"
    /\ i = Len(video.stream)
    /\ pc' = "returned"
    /\ UNCHANGED <<err, video, frequency, dims, period, clip_len, clip_seq, i, frames,
                   clips, resize_vars, extract_vars>>

\* sample_frames as one call: the asserts, the set-up and the whole loop.
RECURSIVE RunLoop(_, _, _, _, _, _)
RunLoop(st, idx, stream, d, p, clen) ==
    IF idx = Len(stream) \/ st.err # "none" THEN st
    ELSE RunLoop(LoopBody(st, idx, stream[idx + 1], d, p, clen), idx + 1, stream, d, p, clen)

SampleFrames(v, freq) ==
    LET empty == [frames |-> <<>>, clips |-> <<>>, clip_seq |-> <<>>, err |-> "none"]
    IN  IF ~v.isfile THEN [empty EXCEPT !.err = "NoSuchVideo"]
        ELSE IF ~FrequencyValid(freq) THEN [empty EXCEPT !.err = "BadFrequency"]
        ELSE RunLoop(empty, 0, v.stream, v.stream[1].shape,
                     Period(v.fps, freq), ClipLen(Period(v.fps, freq)))

SamplerIdle ==
    /\ pc = "idle" /\ err = "none"
    /\ video = [isfile |-> FALSE, fps |-> [num |-> 1, den |-> 4], stream |-> <<>>]
    /\ frequency = [isFloat |-> TRUE, num |-> 4, den |-> 4]
    /\ dims = <<>> /\ period = 0 /\ clip_len = 0
    /\ clip_seq = <<>> /\ i = 0 /\ frames = <<>> /\ clips = <<>>

SamplerInit ==
    /\ pc = "start" /\ err = "none"
    /\ video \in Videos(MaxStreamLen, MaxFpsQuarters)
                    \cup {[isfile |-> FALSE, fps |-> [num |-> 1, den |-> 4], stream |-> <<>>]}
    /\ frequency \in Frequencies
    /\ dims = <<>> /\ period = 0 /\ clip_len = 0
    /\ clip_seq = <<>> /\ i = 0 /\ frames = <<>> /\ clips = <<>>

\* ------------------------------------------------------------ resize_frame
\* np.tile(frame[..., np.newaxis], 3) for a 2-D frame.
Tile(shape) == IF Len(shape) = 2 THEN <<shape[1], shape[2], 3>> ELSE shape

\* cv2.resize(img, dsize): dsize is (width, height); the result has shape
\* (height, width, channels).
CvResize(shape, dsize) == <<dsize[2], dsize[1], shape[3]>>

\* Length of the Python slice [lo:hi] of an axis of length n.
SliceLen(n, lo, hi) ==
    LET norm(x) == IF x < 0 THEN (IF x + n < 0 THEN 0 ELSE x + n)
                   ELSE (IF x > n THEN n ELSE x)
    IN  IF norm(hi) > norm(lo) THEN norm(hi) - norm(lo) ELSE 0

\* resize_frame on shapes: [resized, crop, cropped, out] are the shape after
\* the first cv2.resize, the crop margin, the shape after the slice and the
\* shape returned.
ResizeFrame(shape, d) ==
    LET frame == Tile(shape)
        new_width == d[1]
        new_height == d[2]
        height == frame[1]
        width == frame[2]
    IN  IF height = width
        THEN LET resized == CvResize(frame, d)
             IN  [resized |-> resized, crop |-> 0, cropped |-> resized,
                  out |-> CvResize(resized, d)]
        ELSE IF height < width
        THEN LET resized == CvResize(frame, <<(width * new_height) \div height, new_width>>)
                 crop == (resized[2] - new_height) \div 2
                 cropped == <<resized[1], SliceLen(resized[2], crop, resized[2] - crop),
                              resized[3]>>
             IN  [resized |-> resized, crop |-> crop, cropped |-> cropped,
                  out |-> CvResize(cropped, d)]
        ELSE LET resized == CvResize(frame, <<new_height, (height * new_width) \div width>>)
                 crop == (resized[1] - new_width) \div 2
                 cropped == <<SliceLen(resized[1], crop, resized[1] - crop), resized[2],
                              resized[3]>>
             IN  [resized |-> resized, crop |-> crop, cropped |-> cropped,
                  out |-> CvResize(cropped, d)]

\* Frame shapes h x w, colour or grayscale, and target dims (W, H).
FrameShapes ==
    {<<h, w, 3>> : h \in 1..MaxSide, w \in 1..MaxSide}
        \cup {<<h, w>> : h \in 1..MaxSide, w \in 1..MaxSide}

TargetDims == {<<W, H>> : W \in 1..MaxTarget, H \in 1..MaxTarget}

ResizeIdle ==
    /\ r_pc = "idle" /\ r_frame = <<>> /\ r_dims = <<>> /\ r_resized = <<>>
    /\ r_crop = 0 /\ r_cropped = <<>> /\ r_out = <<>>

ResizeInit ==
    /\ r_pc = "call"
    /\ r_frame \in FrameShapes
    /\ r_dims \in TargetDims
    /\ r_resized = <<>> /\ r_crop = 0 /\ r_cropped = <<>> /\ r_out = <<>>

Resize ==
    /\ r_pc = "call"
    /\ LET r == ResizeFrame(r_frame, r_dims)
       IN  /\ r_resized' = r.resized
           /\ r_crop' = r.crop
           /\ r_cropped' = r.cropped
           /\ r_out' = r.out
    /\ r_pc' = "returned"
    /\ UNCHANGED <<r_frame, r_dims, sampler_vars, extract_vars>>

\* -------------------------------------------------------- extract_features
\* Paths of the mp4 files a dataset directory can hold, as code points:
\* "a", "aa", "b".
Paths == {<<1>>, <<1, 1>>, <<2>>}

\* Python's < on str: lexicographic by code point.
RECURSIVE LexLess(_, _)
LexLess(a, b) ==
    IF b = <<>> THEN FALSE
    ELSE IF a = <<>> THEN TRUE
    ELSE IF a[1] # b[1] THEN a[1] < b[1]
    ELSE LexLess(Tail(a), Tail(b))

RECURSIVE Insert(_, _)
Insert(sorted, x) ==
    IF sorted = <<>> THEN <<x>>
    ELSE IF LexLess(x, sorted[1]) THEN <<x>> \o sorted
    ELSE <<sorted[1]>> \o Insert(Tail(sorted), x)

Unsorted(seq) == seq

\* sorted(videos)
RECURSIVE Sorted(_)
Sorted(seq) == IF seq = <<>> THEN <<>> ELSE Insert(Sorted(Tail(seq)), seq[1])

\* glob.glob: the matching paths, each once, in arbitrary order.
GlobResults ==
    {g \in UNION {[1..n -> Paths] : n \in 0..Cardinality(Paths)} :
        \A a, b \in 1..Len(g) : a # b => g[a] # g[b]}

Modes == {"train", "all"}

\* Arguments a caller can pass to extract_features (max_frames defaults to -1).
Arguments ==
    [raw_is_str : BOOLEAN, dataset_is_str : BOOLEAN, mode : Modes,
     frequency : Frequencies, max_frames : (-1)..MaxFramesBound,
     aencoder_is_module : BOOLEAN, mencoder_is_module : BOOLEAN]

\* The asserts of lines 92-98, in order; "none" when all pass.
ValidationError(a) ==
    IF ~a.raw_is_str THEN "BadRaw"
    ELSE IF ~a.dataset_is_str THEN "BadDataset"
    ELSE IF ~(a.mode = "train" \/ a.mode = "val" \/ a.mode = "test") THEN "BadMode"
    ELSE IF ~(a.max_frames > 0) THEN "BadMaxFrames"
    ELSE IF ~a.aencoder_is_module THEN "BadEncoder"
    ELSE IF ~a.mencoder_is_module THEN "BadEncoder"
    ELSE "none"

ZeroRow == <<>>

\* np.zeros((len(videos), max_frames, num_features))
Zeros(n, rows) == [v \in 1..n |-> [j \in 1..rows |-> ZeroRow]]

\* preprocess_frame: resize to dims=(224, 224); the de-meaning keeps the shape.
PreprocessFrame(frame) ==
    [frame EXCEPT !.shape = ResizeFrame(frame.shape, <<DefaultSide, DefaultSide>>).out]

\* np.array([...]).transpose(0, 3, 1, 2) of one frame of the batch.
Transpose(frame) ==
    [frame EXCEPT !.shape = <<frame.shape[3], frame.shape[1], frame.shape[2]>>]

\* aencoder.forward(frames): one feature vector per frame of the batch, a
\* function of the frame's content (the video it comes from and its index).
Forward(path, batch) == [j \in 1..Len(batch) |-> <<path, batch[j].index>>]

FitsAlways(fs, max_frames) == TRUE

\* len(frames) <= max_frames
Fits(fs, max_frames) == Len(fs) <= max_frames

WriteRowsBroadcast(slot, af) ==
    [j \in 1..Len(slot) |-> IF j <= Len(af) THEN af[j] ELSE af[Len(af)]]

\* features[i, :frames.shape[0], :] = af, with len(af) <= max_frames
WriteRows(slot, af) ==
    [j \in 1..Len(slot) |-> IF j <= Len(af) THEN af[j] ELSE slot[j]]

\* features[i] of the 0-based loop index i
SlotOf(idx) == idx + 1

ExtractIdle ==
    /\ x_pc = "idle" /\ x_err = "none"
    /\ args = <<>>
    /\ dataset_dir_created = FALSE /\ aencoder_on_device = FALSE
    /\ videos = <<>> /\ features = <<>> /\ video_index = 0
    /\ opened = <<>> /\ sample_log = <<>> /\ forward_calls = <<>> /\ dumped = <<>>

ExtractInit ==
    /\ x_pc = "validate" /\ x_err = "none"
    /\ args \in Arguments
    /\ dataset_dir_created = FALSE /\ aencoder_on_device = FALSE
    /\ videos = <<>> /\ features = <<>> /\ video_index = 0
    /\ opened = <<>> /\ sample_log = <<>> /\ forward_calls = <<>> /\ dumped = <<>>

\* lines 92-98
Validate ==
    /\ x_pc = "validate"
    /\ x_err' = ValidationError(args)
    /\ x_pc' = IF ValidationError(args) = "none" THEN "resolve" ELSE "failed"
    /\ UNCHANGED <<args, dataset_dir_created, aencoder_on_device, videos, features,
                   video_index, opened, sample_log, forward_calls, dumped,
                   sampler_vars, resize_vars>>

\* lines 100-101: getDatasetByName(dataset, mode=mode, create=True)
Resolve ==
    /\ x_pc = "resolve"
    /\ dataset_dir_created' = TRUE
    /\ x_pc' = "glob"
    /\ UNCHANGED <<x_err, args, aencoder_on_device, videos, features, video_index,
                   opened, sample_log, forward_calls, dumped, sampler_vars, resize_vars>>

\* lines 103-104
Glob ==
    /\ x_pc = "glob"
    /\ \E g \in GlobResults :
          /\ videos' = g
          /\ x_pc' = IF Len(g) > 0 THEN "encoder" ELSE "failed"
          /\ x_err' = IF Len(g) > 0 THEN x_err ELSE "NoVideos"
    /\ UNCHANGED <<args, dataset_dir_created, aencoder_on_device, features, video_index,
                   opened, sample_log, forward_calls, dumped, sampler_vars, resize_vars>>

\* lines 106-109: aencoder.cuda(1)
ToDevice ==
    /\ x_pc = "encoder"
    /\ aencoder_on_device' = TRUE
    /\ x_pc' = "alloc"
    /\ UNCHANGED <<x_err, args, dataset_dir_created, videos, features, video_index,
                   opened, sample_log, forward_calls, dumped, sampler_vars, resize_vars>>

\* line 111
Allocate ==
    /\ x_pc = "alloc"
    /\ features' = Zeros(Len(videos), args.max_frames)
    /\ x_pc' = "loop"
    /\ UNCHANGED <<x_err, args, dataset_dir_created, aencoder_on_device, videos,
                   video_index, opened, sample_log, forward_calls, dumped,
                   sampler_vars, resize_vars>>

\* One pass of the loop of lines 112-131 over sorted(videos); v is the content
\* of the file at video_path.
ProcessVideo ==
    /\ x_pc = "loop"
    /\ video_index < Len(videos)
    /\ \E v \in Videos(MaxVideoLen, MaxVideoFpsQuarters) :
          LET video_path == Sorted(videos)[video_index + 1]
              got == SampleFrames(v, args.frequency)
              batch == [j \in 1..Len(got.frames) |->
                           Transpose(PreprocessFrame(got.frames[j]))]
              af == Forward(video_path, batch)
          IN  IF got.err = "BadFrequency"
              THEN /\ x_pc' = "failed" /\ x_err' = got.err
                   /\ UNCHANGED <<opened, sample_log, forward_calls, features, video_index>>
              ELSE IF got.err # "none"
              THEN /\ x_pc' = "failed" /\ x_err' = got.err
                   /\ opened' = Append(opened, video_path)
                   /\ UNCHANGED <<sample_log, forward_calls, features, video_index>>
              ELSE IF ~Fits(got.frames, args.max_frames)
              THEN /\ x_pc' = "failed" /\ x_err' = "CapacityOverflow"
                   /\ opened' = Append(opened, video_path)
                   /\ sample_log' = Append(sample_log,
                                           [path |-> video_path, count |-> Len(got.frames)])
                   /\ UNCHANGED <<forward_calls, features, video_index>>
              ELSE /\ opened' = Append(opened, video_path)
                   /\ sample_log' = Append(sample_log,
                                           [path |-> video_path, count |-> Len(got.frames)])
                   /\ forward_calls' = Append(forward_calls,
                                              [path |-> video_path, batch |-> batch, out |-> af])
                   /\ features' = [features EXCEPT ![SlotOf(video_index)] = WriteRows(@, af)]
                   /\ video_index' = video_index + 1
                   /\ UNCHANGED <<x_pc, x_err>>
    /\ UNCHANGED <<args, dataset_dir_created, aencoder_on_device, videos, dumped,
                   sampler_vars, resize_vars>>

\* line 133, after the last video
Dump ==
    /\ x_pc = "loop"
    /\ video_index = Len(videos)
    /\ dumped' = Append(dumped, features)
    /\ x_pc' = "done"
    /\ UNCHANGED <<x_err, args, dataset_dir_created, aencoder_on_device, videos, features,
                   video_index, opened, sample_log, forward_calls, sampler_vars, resize_vars>>

Init == SamplerInit /\ ResizeIdle /\ ExtractIdle

Next == Open \/ Step \/ Return

Spec == Init /\ [][Next]_vars

InitResize == SamplerIdle /\ ResizeInit /\ ExtractIdle

NextResize == Resize

SpecResize == InitResize /\ [][NextResize]_vars

InitExtract == SamplerIdle /\ ResizeIdle /\ ExtractInit

NextExtract == Validate \/ Resolve \/ Glob \/ ToDevice \/ Allocate \/ ProcessVideo \/ Dump

SpecExtract == InitExtract /\ [][NextExtract]_vars

\* ------------------------------------------------- properties: sample_frames
StreamLen == Len(video.stream)

\* The asserts passed and the reader was opened.
Opened == pc # "start" /\ err \notin {"NoSuchVideo", "BadFrequency"}

LastIndex(clip) == clip[Len(clip)].index

ClipIndices(clip) == {clip[j].index : j \in 1..Len(clip)}

\* C1: when sample_frames returns for a stream of N frames and period p >= 1,
\* sampled_frames is exactly the stream's frames at indices 0, p, 2p, ... < N, in
\* increasing order, so it has floor((N-1)/p) + 1 entries; with p >= 1 it fails
\* to return only for a stream that breaks the fixed-shape rule at a sampled index.
C1_SampledFramesExact ==
    /\ pc = "returned" =>
          /\ period >= 1
          /\ Len(frames) = (StreamLen - 1) \div period + 1
          /\ frames = [j \in 1..((StreamLen - 1) \div period + 1) |->
                          video.stream[(j - 1) * period + 1]]
    /\ (pc = "failed" /\ Opened /\ period >= 1) =>
          \E k \in 1..StreamLen :
              (k - 1) % period = 0 /\ video.stream[k].shape # dims

C1_Witness ==
    /\ pc = "returned" /\ period >= 2 /\ Len(frames) >= 3
    /\ (StreamLen - 1) % period # 0

\* C2: every clip has exactly min(2p, 16) frames, no stream index lies in two
\* clips, and no clip ends at an index i <= p.
C2_ClipsFixedLengthDisjoint ==
    /\ \A c \in 1..Len(clips) :
          /\ Len(clips[c]) = (IF 2 * period < MaxClipLen THEN 2 * period ELSE MaxClipLen)
          /\ LastIndex(clips[c]) > period
    /\ \A c1, c2 \in 1..Len(clips) :
          c1 # c2 => ClipIndices(clips[c1]) \cap ClipIndices(clips[c2]) = {}

C2_Witness ==
    /\ pc = "returned" /\ Len(clips) >= 2
    /\ \E c \in 1..Len(clips) : LastIndex(clips[c]) = 2 * period

\* C3: for every frequency in (0, 1] and every positive frame rate the period
\* round(fps / frequency) is >= 1 and i % period never divides by zero.
C3_PeriodAlwaysPositive ==
    Opened => period >= 1 /\ err # "ZeroDivisionError"

\* C7 as stated: a stream with a frame of another shape than frame 0, at any
\* index, never yields a result.
C7_AnyShapeMismatchFatal ==
    pc = "returned" => \A k \in 1..StreamLen : video.stream[k].shape = dims

\* C7 amended: a stream with a frame of another shape than frame 0 at an index
\* that is a multiple of the period never yields a result, the shape error is
\* raised at such an index, and every frame of a returned sampled_frames list
\* has the shape of frame 0 (frames at other indices are not checked).
C7_SampledShapeMismatchFatal ==
    /\ pc = "returned" =>
          /\ \A k \in 1..StreamLen :
                (k - 1) % period = 0 => video.stream[k].shape = dims
          /\ \A j \in 1..Len(frames) : frames[j].shape = dims
    /\ (pc = "failed" /\ Opened /\ period >= 1) => err = "ShapeMismatch"
    /\ (pc = "failed" /\ err = "ShapeMismatch") =>
          /\ i % period = 0
          /\ video.stream[i + 1].shape # dims
          /\ \A k \in 1..i : (k - 1) % period = 0 => video.stream[k].shape = dims

C7_Witness ==
    /\ pc = "failed" /\ err = "ShapeMismatch" /\ i >= 2 * period /\ Len(clips) >= 1

\* C10: each clip is, in order, the clip_len consecutive stream frames ending at
\* an index i that is a multiple of p with i >= 2p, and clips are listed in
\* increasing order of i.
C10_ClipsAreTrailingWindows ==
    \A c \in 1..Len(clips) :
        LET clip == clips[c]
            clen == IF 2 * period < MaxClipLen THEN 2 * period ELSE MaxClipLen
        IN  /\ Len(clip) >= 1
            /\ LastIndex(clip) % period = 0
            /\ LastIndex(clip) >= 2 * period
            /\ LastIndex(clip) - clen + 1 >= 0
            /\ clip = [j \in 1..clen |-> video.stream[LastIndex(clip) - clen + j + 1]]
            /\ c > 1 => LastIndex(clips[c - 1]) < LastIndex(clip)

C10_Witness ==
    /\ pc = "returned" /\ clip_len = MaxClipLen /\ 2 * period > MaxClipLen
    /\ Len(clips) >= 1

\* -------------------------------------------------- properties: resize_frame
\* C8 as stated: a landscape frame is scaled to height H and width w*H // h and
\* cropped to width W (or W + 1); a portrait frame is scaled to width W and
\* height h*W // w and cropped to height H (or H + 1); the crop is never empty.
C8_ScaleThenCenterCrop ==
    r_pc = "returned" =>
        LET h == r_frame[1]
            w == r_frame[2]
            W == r_dims[1]
            H == r_dims[2]
        IN  /\ h < w => /\ r_resized[1] = H
                        /\ r_resized[2] = (w * H) \div h
                        /\ r_cropped[2] \in {W, W + 1}
            /\ h > w => /\ r_resized[2] = W
                        /\ r_resized[1] = (h * W) \div w
                        /\ r_cropped[1] \in {H, H + 1}
            /\ r_cropped[1] >= 1 /\ r_cropped[2] >= 1

\* ---------------------------------------------- properties: extract_features
PathSet == {videos[k] : k \in 1..Len(videos)}

\* The k-th path in lexicographic order: exactly k - 1 paths are smaller.
KthPath(k) ==
    CHOOSE p \in PathSet : Cardinality({q \in PathSet : LexLess(q, p)}) = k - 1

IsZeroSlot(slot) == \A j \in 1..Len(slot) : slot[j] = ZeroRow

\* C4: after a completed run, slot i of the feature matrix holds in rows
\* [0, k_i) the encoder's output for the k_i sampled frames of video i, in
\* temporal order, and rows [k_i, max_frames) are zero.
C4_RowsThenZeroPadding ==
    x_pc = "done" =>
        /\ dumped = <<features>>
        /\ Len(features) = Len(videos)
        /\ \A v \in 1..Len(videos) :
              LET k == sample_log[v].count
                  slot == features[v]
              IN  /\ k <= args.max_frames
                  /\ Len(slot) = args.max_frames
                  /\ Len(forward_calls[v].out) = k
                  /\ \A j \in 1..k : slot[j] = forward_calls[v].out[j]
                  /\ \A j \in 1..(k - 1) : slot[j][2] < slot[j + 1][2]
                  /\ \A j \in (k + 1)..args.max_frames : slot[j] = ZeroRow

C4_Witness ==
    /\ x_pc = "done" /\ Len(videos) >= 2
    /\ \E v \in 1..Len(videos) :
          sample_log[v].count >= 2 /\ sample_log[v].count < args.max_frames

\* C5: a video that samples to more than max_frames frames ends the run with a
\* capacity overflow: the encoder is not invoked for it, its slot stays zero,
\* no later video is opened, nothing is dumped and no step follows.
C5_OverflowAborts ==
    \A k \in 1..Len(sample_log) :
        sample_log[k].count > args.max_frames =>
            /\ x_pc = "failed" /\ x_err = "CapacityOverflow"
            /\ k = Len(sample_log)
            /\ Len(forward_calls) = k - 1
            /\ video_index = k - 1
            /\ Len(opened) = k
            /\ IsZeroSlot(features[k])
            /\ dumped = <<>>
            /\ ~ENABLED NextExtract

C5_Witness ==
    /\ x_err = "CapacityOverflow" /\ Len(forward_calls) >= 1
    /\ Len(videos) > Len(opened)

\* C6 as stated: every input validation error (frequency, max_frames, encoder
\* type, ...) is raised before the dataset directory is created, before the
\* encoder is moved to the device, before the matrix is allocated and before
\* any video is opened.
C6_ValidationBeforeProcessing ==
    x_err \in {"BadRaw", "BadDataset", "BadMode", "BadMaxFrames", "BadEncoder",
               "BadFrequency"} =>
        /\ ~dataset_dir_created
        /\ ~aencoder_on_device
        /\ features = <<>>
        /\ opened = <<>>

C9_SlotsHoldOwnVideo ==
    features # <<>> =>
        /\ Len(features) = Len(videos)
        /\ \A k \in 1..Len(features) :
              IF k <= video_index
              THEN /\ forward_calls[k].path = KthPath(k)
                   /\ features[k][1] # ZeroRow
                   /\ \A j \in 1..Len(features[k]) :
                         features[k][j] # ZeroRow => features[k][j][1] = KthPath(k)
              ELSE IsZeroSlot(features[k])

C9_WriteOwnSlotOnce ==
    (features # <<>> /\ features' # features) =>
        /\ video_index' = video_index + 1
        /\ IsZeroSlot(features[video_index + 1])
        /\ \A k \in 1..Len(features) :
              k # video_index + 1 => features'[k] = features[k]

\* C9: slot i holds the features of the i-th video in lexicographic path
\* order; a slot is written only while its own video is processed, at most
\* once, and the other slots are left unchanged.
C9_SlotsPartitioned == [](C9_SlotsHoldOwnVideo) /\ [][C9_WriteOwnSlotOnce]_vars

C9_Witness ==
    /\ x_pc = "done" /\ video_index = Cardinality(Paths)
    /\ videos # Sorted(videos)

====
